---- MODULE Spec2Model ----
(***************************************************************************)
(* A model of the Gemini chatbot: the browser client (public/script.js)    *)
(* and the Express relay (index.js).                                       *)
(*                                                                         *)
(* Strings are sequences of tokens.  A token is either one white-space     *)
(* character (" " or "\n") or an opaque run of other characters, so that   *)
(* String.prototype.trim, concatenation and join are computed rather than  *)
(* assumed.  JSON values (request and response bodies, the provider's      *)
(* response, message contents) are tagged records.                         *)
(*                                                                         *)
(* public/script.js registers two submit listeners on the same form (lines *)
(* 73 and 188) and declares form, input, chatBox, history and              *)
(* appendMessage twice.  The model reads the file as one script: both      *)
(* listeners are registered, in source order, on the one form; the names   *)
(* declared twice denote one binding each, and of the two function         *)
(* declarations of appendMessage the later one is the one in effect.       *)
(***************************************************************************)
EXTENDS Integers, Sequences, FiniteSets, TLC

(***************************************************************************)
(* Bounds of the model.                                                    *)
(***************************************************************************)
\* longest text the user types and the longest result string a reply carries
MaxLen == 2
\* a submission is accepted only while history is shorter than this
MaxHistory == 2

(***************************************************************************)
(* Strings.                                                                *)
(***************************************************************************)
WhiteSpace == {" ", "\n"}

Chars == {" ", "a"}

Texts == UNION {[1..n -> Chars] : n \in 0..MaxLen}

RECURSIVE TrimStart(_)
TrimStart(s) ==
    IF s # <<>> /\ Head(s) \in WhiteSpace THEN TrimStart(Tail(s)) ELSE s

RECURSIVE TrimEnd(_)
TrimEnd(s) ==
    IF s # <<>> /\ s[Len(s)] \in WhiteSpace
    THEN TrimEnd(SubSeq(s, 1, Len(s) - 1))
    ELSE s

\* String.prototype.trim
Trim(s) == TrimEnd(TrimStart(s))

(***************************************************************************)
(* JSON values.  An object is its sequence of <<key, value>> pairs in      *)
(* insertion order.                                                        *)
(***************************************************************************)
JUndef == [t |-> "undefined"]

JNull == [t |-> "null"]

JNum(n) == [t |-> "number", n |-> n]

JStr(s) == [t |-> "string", s |-> s]

JArr(a) == [t |-> "array", a |-> a]

JObj(p) == [t |-> "object", p |-> p]

\* JavaScript truthiness
Truthy(v) ==
    CASE v.t \in {"undefined", "null"} -> FALSE
      [] v.t = "number" -> v.n # 0
      [] v.t = "string" -> v.s # <<>>
      [] OTHER -> TRUE

Nullish(v) == v.t \in {"undefined", "null"}

\* the value of the first pair of object o whose key is k, undefined if none
RECURSIVE Lookup(_, _)
Lookup(p, k) ==
    IF p = <<>> THEN JUndef
    ELSE IF Head(p)[1] = k THEN Head(p)[2]
    ELSE Lookup(Tail(p), k)

\* v.k on a value that is not null or undefined
Prop(v, k) == IF v.t = "object" THEN Lookup(v.p, k) ELSE JUndef

\* v?.k
OptProp(v, k) == IF Nullish(v) THEN JUndef ELSE Prop(v, k)

\* String(v)
ToText(v) ==
    CASE v.t = "string" -> v.s
      [] v.t = "number" -> <<ToString(v.n)>>
      [] v.t = "undefined" -> <<"undefined">>
      [] v.t = "null" -> <<"null">>
      [] v.t = "array" -> <<"[array]">>
      [] OTHER -> <<"[object Object]">>

\* the text an element shows after  el.textContent = v
TextContent(v) == IF Nullish(v) THEN <<>> ELSE ToText(v)

(***************************************************************************)
(* JSON.stringify(v, null, Indent): undefined for undefined, else the      *)
(* indented rendering.  A property whose value is undefined is left out,   *)
(* and an undefined array element is rendered as null.                     *)
(***************************************************************************)
Indent == 2

NewLine(ind) == <<"\n">> \o [i \in 1..ind |-> " "]

\* the characters of a string between its quotes: a line feed is escaped
Escaped(s) == [i \in 1..Len(s) |-> IF s[i] = "\n" THEN "\\n" ELSE s[i]]

RECURSIVE Defined(_)
\* the pairs of an object whose value is not undefined
Defined(p) ==
    IF p = <<>> THEN <<>>
    ELSE IF Head(p)[2] = JUndef THEN Defined(Tail(p))
    ELSE <<Head(p)>> \o Defined(Tail(p))

RECURSIVE Render(_, _), RenderItems(_, _), RenderPairs(_, _)
Render(v, ind) ==
    CASE v.t \in {"undefined", "null"} -> <<"null">>
      [] v.t = "number" -> <<ToString(v.n)>>
      [] v.t = "string" -> <<"\"">> \o Escaped(v.s) \o <<"\"">>
      [] v.t = "array" ->
            IF v.a = <<>> THEN <<"[]">>
            ELSE <<"[">> \o RenderItems(v.a, ind + Indent) \o NewLine(ind) \o <<"]">>
      [] OTHER ->
            IF Defined(v.p) = <<>> THEN <<"{}">>
            ELSE <<"{">> \o RenderPairs(Defined(v.p), ind + Indent)
                 \o NewLine(ind) \o <<"}">>

RenderItems(a, ind) ==
    NewLine(ind) \o Render(Head(a), ind)
    \o (IF Len(a) = 1 THEN <<>> ELSE <<",">> \o RenderItems(Tail(a), ind))

RenderPairs(p, ind) ==
    NewLine(ind) \o <<"\"", Head(p)[1], "\"", ":", " ">> \o Render(Head(p)[2], ind)
    \o (IF Len(p) = 1 THEN <<>> ELSE <<",">> \o RenderPairs(Tail(p), ind))

Stringify(v) == IF v = JUndef THEN JUndef ELSE JStr(Render(v, 0))

(***************************************************************************)
(* extractText, index.js lines 36-54.                                      *)
(***************************************************************************)
\* v?.[0]
OptFirst(v) ==
    CASE Nullish(v) -> JUndef
      [] v.t = "array" -> IF v.a = <<>> THEN JUndef ELSE v.a[1]
      [] v.t = "string" -> IF v.s = <<>> THEN JUndef ELSE JStr(<<v.s[1]>>)
      [] OTHER -> Prop(v, "0")

\* r?.candidates?.[0]?.content?.parts
CandidateParts(r) ==
    OptProp(OptProp(OptFirst(OptProp(r, "candidates")), "content"), "parts")

\* r?.candidates?.[0]?.content?.parts?.[0]?.text
FirstPartText(r) == OptProp(OptFirst(CandidateParts(r)), "text")

RECURSIVE JoinTokens(_, _)
\* Array.prototype.join on strings
JoinTokens(texts, sep) ==
    IF texts = <<>> THEN <<>>
    ELSE IF Len(texts) = 1 THEN ToText(texts[1])
    ELSE ToText(texts[1]) \o sep \o JoinTokens(Tail(texts), sep)

\* parts?.map((p) => p.text).filter(Boolean).join("\n") of r's first
\* candidate: [threw |-> TRUE] when the evaluation throws a TypeError
JoinedPartTexts(r) ==
    LET parts == CandidateParts(r) IN
    IF Nullish(parts) THEN [threw |-> FALSE, v |-> JUndef]
    ELSE IF parts.t # "array" THEN [threw |-> TRUE]
    ELSE IF \E i \in DOMAIN parts.a : Nullish(parts.a[i]) THEN [threw |-> TRUE]
    ELSE [threw |-> FALSE,
          v |-> JStr(JoinTokens(
                    SelectSeq([i \in DOMAIN parts.a |-> Prop(parts.a[i], "text")],
                              Truthy),
                    <<"\n">>))]

extractText(resp) ==
    LET wrapped == OptProp(resp, "response") IN
    IF ~Nullish(FirstPartText(wrapped)) THEN FirstPartText(wrapped)
    ELSE IF ~Nullish(FirstPartText(resp)) THEN FirstPartText(resp)
    ELSE IF JoinedPartTexts(wrapped).threw THEN Stringify(resp)
    ELSE IF ~Nullish(JoinedPartTexts(wrapped).v) THEN JoinedPartTexts(wrapped).v
    ELSE IF JoinedPartTexts(resp).threw THEN Stringify(resp)
    ELSE IF ~Nullish(JoinedPartTexts(resp).v) THEN JoinedPartTexts(resp).v
    ELSE Stringify(resp)

(***************************************************************************)
(* The browser client, public/script.js.                                   *)
(***************************************************************************)
VARIABLES
    inputValue,     \* input.value
    inputDisabled,  \* input.disabled
    btnDisabled,    \* disabled of the form's submit button
    history,        \* the history array
    chatBox,        \* the message elements appended to chatBox, in order
    inflight,       \* the fetch calls to /api/chat not yet settled and resumed
    console         \* the message of the last error given to console.error

clientVars ==
    <<inputValue, inputDisabled, btnDisabled, history, chatBox, inflight, console>>

ThinkingText == <<"Thinking...">>

NoResponseText == <<"Sorry, no response received.">>

FailedText == <<"Failed to get response from server.">>

NetworkErrorText == <<"Network error">>

InvalidJsonText == <<"Invalid JSON response">>

FetchFailedText == <<"TypeError: Failed to fetch">>

MissingKeyText == <<"Missing GEMINI_API_KEY (or API_KEY) in environment.">>

\* { role, content } as pushed to history
Message(role, content) == [role |-> role, content |-> content]

\* the client's state as one record, so that the listeners of one submit
\* event can be applied one after the other
ClientState ==
    [inputValue |-> inputValue, inputDisabled |-> inputDisabled,
     btnDisabled |-> btnDisabled, history |-> history, chatBox |-> chatBox,
     inflight |-> inflight, console |-> console]

\* appendMessage(sender, text): the new element is the last one of the result
appendMessage(box, sender, text) ==
    Append(box, [sender |-> sender, text |-> text, error |-> FALSE])

setInputEnabled(st, enabled) ==
    [st EXCEPT !.inputDisabled = ~enabled, !.btnDisabled = ~enabled]

(***************************************************************************)
(* What the network can answer to one fetch.                               *)
(***************************************************************************)
Pending == [kind |-> "pending"]

Statuses == {200, 500, 503}

\* values of a body's result: missing, not a string, empty, white space,
\* text, text in white space
ResultValues ==
    {JUndef, JNum(7), JStr(<<>>), JStr(<<" ">>), JStr(<<"a">>),
     JStr(<<" ", "a", "\n">>)}

ErrorValues == {JUndef, JStr(<<>>), JStr(MissingKeyText)}

BodyObject(result, error) ==
    JObj((IF result = JUndef THEN <<>> ELSE <<<<"result", result>>>>)
         \o (IF error = JUndef THEN <<>> ELSE <<<<"error", error>>>>))

Bodies ==
    {JNull, BodyObject(JStr(<<"a">>), JStr(MissingKeyText))}
    \cup {BodyObject(r, JUndef) : r \in ResultValues}
    \cup {BodyObject(JUndef, e) : e \in ErrorValues}

Responses ==
    {[kind |-> "neterr"]}
    \cup {[kind |-> "nonjson", status |-> s] : s \in Statuses}
    \cup {[kind |-> "json", status |-> s, body |-> b] : s \in Statuses, b \in Bodies}

\* resp.ok
Ok(resp) == resp.status >= 200 /\ resp.status <= 299

(***************************************************************************)
(* sendMessage, lines 37-71.  The call runs to the await of fetch          *)
(* (sendMessageCall); it resumes when the fetch has settled                *)
(* (sendMessageResume).  The request body is serialised when fetch is      *)
(* called, so the request carries the history of that moment.              *)
(***************************************************************************)
\* sendMessageCall without the push of line 38
sendMessageCall_NoPush(st, userText) ==
    LET box == appendMessage(st.chatBox, "model", ThinkingText)
    IN  [st EXCEPT
            !.chatBox = box,
            !.inflight = Append(@, [handler |-> 1, messages |-> st.history,
                                    el |-> Len(box), resp |-> Pending])]

sendMessageCall(st, userText) ==
    LET hist == Append(st.history, Message("user", JStr(userText)))
        box == appendMessage(st.chatBox, "model", ThinkingText)
    IN  [st EXCEPT
            !.history = hist,
            !.chatBox = box,
            !.inflight = Append(@, [handler |-> 1, messages |-> hist,
                                    el |-> Len(box), resp |-> Pending])]

\* aiText with the result tested and taken as it came, not trimmed
aiText_Untrimmed(data) ==
    IF Truthy(data)
       /\ Prop(data, "result").t = "string"
       /\ Prop(data, "result").s # <<>>
    THEN Prop(data, "result")
    ELSE JNull

\* lines 55-58: the trimmed result if it is a non-empty string, else null
aiText(data) ==
    IF Truthy(data)
       /\ Prop(data, "result").t = "string"
       /\ Trim(Prop(data, "result").s) # <<>>
    THEN JStr(Trim(Prop(data, "result").s))
    ELSE JNull

\* line 54: the message of the Error thrown on a status that is not ok
httpErrorMessage(resp) ==
    IF Truthy(OptProp(resp.body, "error"))
    THEN ToText(OptProp(resp.body, "error"))
    ELSE <<"HTTP ", ToString(resp.status)>>

\* the catch block taking back the user message of the failed exchange
sendMessageCatch_Pops(st, el, message) ==
    [st EXCEPT
        !.console = JStr(message),
        !.history = SubSeq(@, 1, Len(@) - 1),
        !.chatBox[el].text = FailedText,
        !.chatBox[el].error = TRUE]

\* lines 66-69: the catch block
sendMessageCatch(st, el, message) ==
    [st EXCEPT
        !.console = JStr(message),
        !.chatBox[el].text = FailedText,
        !.chatBox[el].error = TRUE]

\* lines 59-63
sendMessageNoText(st, el) ==
    [st EXCEPT !.chatBox[el].text = NoResponseText, !.chatBox[el].error = TRUE]

\* a reply that takes the place of the last message of history
sendMessageReply_Overwrites(st, el, text) ==
    [st EXCEPT
        !.chatBox[el].text = text.s,
        !.history = Append(SubSeq(@, 1, Len(@) - 1), Message("model", text))]

\* lines 64-65
sendMessageReply(st, el, text) ==
    [st EXCEPT
        !.chatBox[el].text = text.s,
        !.history = Append(@, Message("model", text))]

sendMessageResume(st, req) ==
    LET resp == req.resp IN
    IF resp.kind = "neterr" THEN sendMessageCatch(st, req.el, FetchFailedText)
    ELSE IF resp.kind = "nonjson" THEN sendMessageCatch(st, req.el, InvalidJsonText)
    ELSE IF ~Ok(resp) THEN sendMessageCatch(st, req.el, httpErrorMessage(resp))
    ELSE IF ~Truthy(aiText(resp.body)) THEN sendMessageNoText(st, req.el)
    ELSE sendMessageReply(st, req.el, aiText(resp.body))

(***************************************************************************)
(* The first submit listener, lines 73-82.                                 *)
(***************************************************************************)
\* the listener without  input.value = ""  of line 78
submitListener1_KeepsInput(st) ==
    LET userText == Trim(st.inputValue) IN
    IF userText = <<>> THEN st
    ELSE sendMessageCall(
            setInputEnabled(
                [st EXCEPT !.chatBox = appendMessage(@, "user", userText)],
                FALSE),
            userText)

\* the listener testing input.value before it is trimmed
submitListener1_RawCheck(st) ==
    LET userText == Trim(st.inputValue) IN
    IF st.inputValue = <<>> THEN st
    ELSE sendMessageCall(
            setInputEnabled(
                [st EXCEPT
                    !.chatBox = appendMessage(@, "user", userText),
                    !.inputValue = <<>>],
                FALSE),
            userText)

\* lines 74-80, to the await of sendMessage
submitListener1(st) ==
    LET userText == Trim(st.inputValue) IN
    IF userText = <<>> THEN st
    ELSE sendMessageCall(
            setInputEnabled(
                [st EXCEPT
                    !.chatBox = appendMessage(@, "user", userText),
                    !.inputValue = <<>>],
                FALSE),
            userText)

\* the listener without the setInputEnabled(true) of line 81
resumeListener1_StaysDisabled(st, req) == sendMessageResume(st, req)

\* lines 80-81, from the settling of the fetch on
resumeListener1(st, req) == setInputEnabled(sendMessageResume(st, req), TRUE)

(***************************************************************************)
(* The second submit listener, lines 188-222.                              *)
(***************************************************************************)
\* lines 189-206, to the await of fetch
submitListener2(st) ==
    LET userMessage == Trim(st.inputValue) IN
    IF userMessage = <<>> THEN st
    ELSE
        LET hist == Append(st.history, Message("user", JStr(userMessage)))
            box == appendMessage(appendMessage(st.chatBox, "user", userMessage),
                                 "bot", ThinkingText)
        IN  [st EXCEPT
                !.chatBox = box,
                !.history = hist,
                !.inputValue = <<>>,
                !.inputDisabled = TRUE,
                !.inflight = Append(@, [handler |-> 2, messages |-> hist,
                                        el |-> Len(box), resp |-> Pending])]

\* lines 215-217: the catch block
listener2Catch(st, el, message) ==
    [st EXCEPT !.chatBox[el].text = NetworkErrorText, !.console = JStr(message)]

\* lines 207-214
listener2Try(st, req) ==
    LET resp == req.resp
        errData == IF resp.kind = "json" THEN resp.body ELSE JObj(<<>>)
    IN
    IF resp.kind = "neterr" THEN listener2Catch(st, req.el, FetchFailedText)
    ELSE IF ~Ok(resp) THEN
        IF Nullish(errData)
        THEN listener2Catch(st, req.el, <<"TypeError">>)
        ELSE [st EXCEPT !.chatBox[req.el].text =
                IF Truthy(Prop(errData, "error"))
                THEN ToText(Prop(errData, "error"))
                ELSE <<"Error: ", ToString(resp.status)>>]
    ELSE IF resp.kind = "nonjson" THEN listener2Catch(st, req.el, <<"SyntaxError">>)
    ELSE IF Nullish(resp.body) THEN listener2Catch(st, req.el, <<"TypeError">>)
    ELSE [st EXCEPT
            !.chatBox[req.el].text = TextContent(Prop(resp.body, "result")),
            !.history = Append(@, Message("model", Prop(resp.body, "result")))]

\* lines 207-221, from the settling of the fetch on, with the finally block
resumeListener2(st, req) == [listener2Try(st, req) EXCEPT !.inputDisabled = FALSE]

(***************************************************************************)
(* The client's actions.                                                   *)
(***************************************************************************)
\* the listeners of one submit event, run in the order of their registration
dispatchSubmit(st) == submitListener2(submitListener1(st))

\* the listener that awaits request req resumes
resumeListener(st, req) ==
    IF req.handler = 1 THEN resumeListener1(st, req) ELSE resumeListener2(st, req)

RemoveAt(q, i) == SubSeq(q, 1, i - 1) \o SubSeq(q, i + 1, Len(q))

SetClient(st) ==
    /\ inputValue' = st.inputValue
    /\ inputDisabled' = st.inputDisabled
    /\ btnDisabled' = st.btnDisabled
    /\ history' = st.history
    /\ chatBox' = st.chatBox
    /\ inflight' = st.inflight
    /\ console' = st.console

ClientInit ==
    /\ inputValue = <<>>
    /\ inputDisabled = FALSE
    /\ btnDisabled = FALSE
    /\ history = <<>>
    /\ chatBox = <<>>
    /\ inflight = <<>>
    /\ console = JUndef

\* the user edits the text of the input, which a disabled control refuses
Type(text) ==
    /\ ~inputDisabled
    /\ inputValue' = text
    /\ UNCHANGED <<inputDisabled, btnDisabled, history, chatBox, inflight, console>>

\* a submit event on the form, in any state of the controls
Submit ==
    /\ Trim(inputValue) = <<>> \/ Len(history) < MaxHistory
    /\ SetClient(dispatchSubmit(ClientState))

\* the network settles one pending fetch
Settle(resp) ==
    \E i \in DOMAIN inflight :
        /\ inflight[i].resp = Pending
        /\ inflight' = [inflight EXCEPT ![i].resp = resp]
        /\ UNCHANGED <<inputValue, inputDisabled, btnDisabled, history, chatBox, console>>

\* the listener awaiting a settled fetch runs to its end
Resume ==
    \E i \in DOMAIN inflight :
        /\ inflight[i].resp # Pending
        /\ SetClient(resumeListener(
                [ClientState EXCEPT !.inflight = RemoveAt(inflight, i)],
                inflight[i]))

(***************************************************************************)
(* The relay, index.js.  The variables describe the exchange the relay is  *)
(* handling: the handler of POST /api/chat keeps nothing from one request  *)
(* to the next, and reads only API_KEY, GEMINI_MODEL and the client class. *)
(***************************************************************************)
VARIABLES
    API_KEY,      \* whether GEMINI_API_KEY or API_KEY is set in the environment
    clientStyle,  \* the call style the installed @google/genai client offers
    relayUp,      \* the process has not ended on an unhandled rejection
    req,          \* req.body of the request being handled
    call,         \* the provider call the handler awaits
    provider,     \* how the provider call of this exchange settled
    res           \* the response sent for the request

relayVars == <<API_KEY, clientStyle, relayUp, req, call, provider, res>>

GEMINI_MODEL == <<"gemini-2.5-flash">>

\* the longest parts array of a provider response
MaxParts == 2
\* the longest messages array of a request
MaxMessages == 2

None == [kind |-> "none"]

SeqsUpTo(S, n) == UNION {[1..k -> S] : k \in 0..n}

(***************************************************************************)
(* What the provider can answer.                                           *)
(***************************************************************************)
PartTexts == {JUndef, JStr(<<>>), JStr(<<"a">>), JStr(<<"b">>)}

PartValues ==
    {JNull} \cup {JObj(IF t = JUndef THEN <<>> ELSE <<<<"text", t>>>>) : t \in PartTexts}

PartsValues == {JUndef} \cup {JArr(ps) : ps \in SeqsUpTo(PartValues, MaxParts)}

\* { candidates: [ { content: { parts } } ] }, parts left out when undefined
Generated(parts) ==
    JObj(<<<<"candidates",
             JArr(<<JObj(<<<<"content",
                             JObj(IF parts = JUndef THEN <<>>
                                  ELSE <<<<"parts", parts>>>>)>>>>)>>)>>>>)

\* the same under a response property, with or without candidates of its own
Wrapped(parts, outer) ==
    JObj(<<<<"response", Generated(parts)>>>>
         \o (IF outer = JUndef THEN <<>> ELSE Generated(outer).p))

FewParts ==
    {JUndef, JArr(<<>>), JArr(<<JObj(<<<<"text", JStr(<<"b">>)>>>>)>>)}

ProviderResponses ==
    {JUndef, JNull, JNum(0), JStr(<<"a">>), JObj(<<>>),
     JObj(<<<<"candidates", JArr(<<>>)>>>>)}
    \cup {Generated(ps) : ps \in PartsValues}
    \cup {Wrapped(ps, JUndef) : ps \in PartsValues}
    \cup {Wrapped(ps, outer) : ps \in FewParts, outer \in FewParts \ {JUndef}}

ProviderErrors == {<<"fetch failed">>}

(***************************************************************************)
(* What a request can carry.                                               *)
(***************************************************************************)
Roles == {<<"user">>, <<"model">>, <<"system">>}

MessageValues ==
    {JNull}
    \cup {JObj(<<<<"role", JStr(r)>>,
                 <<"content", JStr(IF r = <<"user">> THEN <<"b", " ">> ELSE <<"a">>)>>>>) :
            r \in Roles}

RequestBodies ==
    {JUndef, JObj(<<>>), JArr(<<>>)}
    \cup {JObj(<<<<"messages", m>>>>) :
            m \in {JNull, JStr(<<"not-an-array">>), JObj(<<>>), JNum(1)}}
    \cup {JObj(<<<<"messages", JArr(ms)>>>>) : ms \in SeqsUpTo(MessageValues, MaxMessages)}

(***************************************************************************)
(* The handler of POST /api/chat, lines 61-98.  The body of the try block  *)
(* ends in a response, in a provider call to await, or in a throw.         *)
(***************************************************************************)
Respond(status, body) == [kind |-> "respond", status |-> status, body |-> body]

Throw(message) == [kind |-> "throw", message |-> message]

\* res.json(obj): the body on the wire holds no undefined property
Json(p) == JObj(Defined(p))

\* getClient without the test of API_KEY
getClient_NoKeyTest == JObj(<<<<"style", JStr(<<clientStyle>>)>>>>)

\* getClient, lines 30-33: null without a key
getClient == IF ~API_KEY THEN JNull ELSE JObj(<<<<"style", JStr(<<clientStyle>>)>>>>)

\* the mapping that leaves out the messages whose role it does not know
Contents_KnownRoles(messages) ==
    LET known == SelectSeq(messages,
                    LAMBDA m : Prop(m, "role") \in {JStr(<<"user">>), JStr(<<"model">>)})
    IN  [i \in DOMAIN known |->
            JObj(<<<<"role", Prop(known[i], "role")>>,
                   <<"parts", JArr(<<JObj(<<<<"text", Prop(known[i], "content")>>>>)>>)>>>>)]

\* lines 73-76
Contents(messages) ==
    [i \in DOMAIN messages |->
        JObj(<<<<"role", Prop(messages[i], "role")>>,
               <<"parts", JArr(<<JObj(<<<<"text", Prop(messages[i], "content")>>>>)>>)>>>>)]

\* lines 63-91, to the await of generateContent
chatTry(body) ==
    LET messages == Prop(IF Truthy(body) THEN body ELSE JObj(<<>>), "messages") IN
    IF messages.t # "array" THEN Throw(<<"messages must be an array">>)
    ELSE IF getClient = JNull THEN Respond(503, Json(<<<<"error", JStr(MissingKeyText)>>>>))
    ELSE IF \E i \in DOMAIN messages.a : Nullish(messages.a[i])
         THEN Throw(<<"TypeError: Cannot read properties of null">>)
    ELSE IF clientStyle = "none" THEN Throw(<<"Unsupported Gemini client instance">>)
    ELSE [kind |-> "call", style |-> clientStyle, model |-> GEMINI_MODEL,
          contents |-> Contents(messages.a)]

\* line 93, when generateContent has resolved with resp
chatReply(resp) == Respond(200, Json(<<<<"result", extractText(resp)>>>>))

\* the handler without its catch block
chatCatch_None(r) == r

\* lines 94-97: the catch block
chatCatch(r) ==
    IF r.kind = "throw"
    THEN Respond(500, Json(<<<<"error", JStr(r.message)>>>>))
    ELSE r

\* where one run of the handler leaves the relay
RelayStep(r) ==
    /\ relayUp' = (r.kind # "throw")
    /\ call' = IF r.kind = "call" THEN r ELSE None
    /\ res' = IF r.kind = "respond" THEN r ELSE None

RelayInit ==
    /\ API_KEY \in BOOLEAN
    /\ clientStyle \in {"models", "getGenerativeModel", "none"}
    /\ relayUp = TRUE
    /\ req = None
    /\ call = None
    /\ provider = None
    /\ res = None

\* a request arrives and its handler runs to its response or to its await
Receive(body) ==
    /\ relayUp
    /\ call = None
    /\ req' = [kind |-> "request", body |-> body]
    /\ provider' = None
    /\ RelayStep(chatCatch(chatTry(body)))
    /\ UNCHANGED <<API_KEY, clientStyle>>

\* generateContent resolves and the handler runs to its end
Resolve(resp) ==
    /\ call # None
    /\ provider' = [kind |-> "resolved", resp |-> resp]
    /\ RelayStep(chatCatch(chatReply(resp)))
    /\ UNCHANGED <<API_KEY, clientStyle, req>>

\* generateContent rejects and the handler runs to its end
Reject(message) ==
    /\ call # None
    /\ provider' = [kind |-> "rejected", message |-> message]
    /\ RelayStep(chatCatch(Throw(message)))
    /\ UNCHANGED <<API_KEY, clientStyle, req>>

(***************************************************************************)
(* Server start-up: src/index.js, lines 100-122.                           *)
(***************************************************************************)

VARIABLES
    PORT,          \* process.env.PORT: unset, or its text
    port,          \* the port of the latest call of start
    attemptsLeft,  \* the attemptsLeft of the latest call of start
    phase,         \* "binding", "listening" or "exited"
    exitCode,      \* the exit code of the process once it has exited
    attempts,      \* the ports app.listen was called with, in order
    errors,        \* the codes of the error events received, in order
    listening,     \* the ports a server of this process is listening on
    serverLog      \* the lines written to the server's console

startVars ==
    <<PORT, port, attemptsLeft, phase, exitCode, attempts, errors, listening, serverLog>>

\* line 100
DefaultPort == 3000

\* line 102
DefaultAttempts == 5

\* how many of the highest port numbers the environment may name
TopPorts == 3

NaN == [t |-> "NaN"]

Unset == [t |-> "unset"]

\* a text of the environment: a sequence of pieces, each a run of digits
\* (with its value) or one other character
Digits(n) == [c |-> "digits", n |-> n]

Char(c) == [c |-> c, n |-> 0]

EnvText(s) == [t |-> "text", s |-> s]

\* parseInt(v, 10): white space is skipped, then a sign is read, then the
\* digits; anything after them is ignored; NaN when there are no digits
parseInt(v) ==
    IF v.t # "text" THEN NaN
    ELSE LET RECURSIVE skip(_)
             skip(s) == IF s # <<>> /\ s[1].c \in WhiteSpace THEN skip(Tail(s)) ELSE s
             rest == skip(v.s)
             signed == rest # <<>> /\ rest[1].c \in {"-", "+"}
             body == IF signed THEN Tail(rest) ELSE rest
         IN  IF body = <<>> \/ body[1].c # "digits" THEN NaN
             ELSE JNum(IF signed /\ rest[1].c = "-" THEN 0 - body[1].n ELSE body[1].n)

\* line 100: NaN and 0 are falsy
BASE_PORT(env) ==
    IF parseInt(env) = NaN \/ parseInt(env) = JNum(0) THEN DefaultPort
    ELSE parseInt(env).n

EnvPorts ==
    {Unset, EnvText(<<>>), EnvText(<<Char("a")>>), EnvText(<<Digits(0)>>),
     EnvText(<<Char("-"), Digits(1)>>), EnvText(<<Char(" "), Digits(8080), Char("a")>>),
     EnvText(<<Digits(80)>>)}
    \cup {EnvText(<<Digits(n)>>) : n \in (65536 - TopPorts)..65536}

StartState ==
    [port |-> port, attemptsLeft |-> attemptsLeft, phase |-> phase,
     exitCode |-> exitCode, attempts |-> attempts, errors |-> errors,
     listening |-> listening, serverLog |-> serverLog]

\* the state before start is called
Loaded ==
    [port |-> 0, attemptsLeft |-> 0, phase |-> "loaded", exitCode |-> 0,
     attempts |-> <<>>, errors |-> <<>>, listening |-> {}, serverLog |-> <<>>]

\* line 103: listen throws on a port that is no port number, and the
\* exception, which nothing catches, ends the process with code 1
start(st, p, left) ==
    IF p \in 0..65535
    THEN [st EXCEPT !.port = p, !.attemptsLeft = left, !.phase = "binding",
                    !.attempts = Append(@, p)]
    ELSE [st EXCEPT !.port = p, !.attemptsLeft = left, !.phase = "exited",
                    !.exitCode = 1, !.attempts = Append(@, p)]

\* lines 103-110: the callback of listen
onListening(st, key) ==
    [st EXCEPT
        !.phase = "listening",
        !.listening = @ \cup {st.port},
        !.serverLog = @ \o (IF key THEN <<>> ELSE <<"no key">>) \o <<"ready">>]

\* an error handler that retries whatever the error is
onError_AnyCode(st, code) ==
    IF st.attemptsLeft > 0
    THEN start([st EXCEPT !.errors = Append(@, code),
                          !.serverLog = Append(@, "in use")],
               st.port + 1, st.attemptsLeft - 1)
    ELSE [st EXCEPT !.errors = Append(@, code),
                    !.serverLog = Append(@, "failed"),
                    !.phase = "exited",
                    !.exitCode = 1]

\* lines 111-119: the handler of the server's error event
onError(st, code) ==
    IF code = "EADDRINUSE" /\ st.attemptsLeft > 0
    THEN start([st EXCEPT !.errors = Append(@, code),
                          !.serverLog = Append(@, "in use")],
               st.port + 1, st.attemptsLeft - 1)
    ELSE [st EXCEPT !.errors = Append(@, code),
                    !.serverLog = Append(@, "failed"),
                    !.phase = "exited",
                    !.exitCode = 1]

ErrorCodes == {"EADDRINUSE", "EACCES"}

SetStart(st) ==
    /\ port' = st.port
    /\ attemptsLeft' = st.attemptsLeft
    /\ phase' = st.phase
    /\ exitCode' = st.exitCode
    /\ attempts' = st.attempts
    /\ errors' = st.errors
    /\ listening' = st.listening
    /\ serverLog' = st.serverLog
    /\ UNCHANGED PORT

\* line 122
StartInit ==
    /\ PORT \in EnvPorts
    /\ LET st == start(Loaded, BASE_PORT(PORT), DefaultAttempts)
       IN  /\ port = st.port
           /\ attemptsLeft = st.attemptsLeft
           /\ phase = st.phase
           /\ exitCode = st.exitCode
           /\ attempts = st.attempts
           /\ errors = st.errors
           /\ listening = st.listening
           /\ serverLog = st.serverLog

\* the server as the other specifications hold it: started on the default
\* port, listening
StartDone ==
    /\ PORT = Unset
    /\ port = DefaultPort
    /\ attemptsLeft = DefaultAttempts
    /\ phase = "listening"
    /\ exitCode = 0
    /\ attempts = <<DefaultPort>>
    /\ errors = <<>>
    /\ listening = {DefaultPort}
    /\ serverLog = (IF API_KEY THEN <<>> ELSE <<"no key">>) \o <<"ready">>

Listening ==
    /\ phase = "binding"
    /\ SetStart(onListening(StartState, API_KEY))

Error(code) ==
    /\ phase = "binding"
    /\ SetStart(onError(StartState, code))

(***************************************************************************)
(* The markdown renderer: src/public/script.js, lines 97-158.              *)
(*                                                                         *)
(* A text is a sequence of tokens, as above.  Here every character the     *)
(* renderer's patterns look at is a token of its own; the URL schemes, the *)
(* entities and the tags the renderer writes are one token each, none of   *)
(* them holding a character a pattern looks for.                           *)
(***************************************************************************)

VARIABLES
    raw,    \* the argument of renderMarkdown
    html    \* what renderMarkdown returned; <<>> before the call

renderVars == <<raw, html>>

\* how many lines an argument has at most
MaxLines == 2

\* the token of the grave accent, which a string of this language cannot hold
Backtick == "grave"

Min(S) == CHOOSE x \in S : \A y \in S : x <= y

Is(s, i, t) == i \in 1..Len(s) /\ s[i] = t

\* the first index from i on whose token is in T, Len(s) + 1 if none
Find(s, i, T) ==
    LET hits == {k \in i..Len(s) : s[k] \in T}
    IN  IF hits = {} THEN Len(s) + 1 ELSE Min(hits)

\* the first index from i on whose token is not in T, Len(s) + 1 if none
FindNot(s, i, T) ==
    LET hits == {k \in i..Len(s) : s[k] \notin T}
    IN  IF hits = {} THEN Len(s) + 1 ELSE Min(hits)

\* ^ under the m flag
AtLineStart(s, i) == i = 1 \/ s[i - 1] = "\n"

\* a sanitize that lets < and > through
sanitize_AmpOnly(str) ==
    [i \in DOMAIN str |-> IF str[i] = "&" THEN "&amp;" ELSE str[i]]

\* lines 97-101: the serialization of a text node escapes &, < and >, and
\* nothing else
sanitize(str) ==
    [i \in DOMAIN str |->
        CASE str[i] = "&" -> "&amp;"
          [] str[i] = "<" -> "&lt;"
          [] str[i] = ">" -> "&gt;"
          [] OTHER -> str[i]]

\* String.prototype.replace with a g pattern: ends[i] is the index after
\* the match that starts at i, 0 when there is none, and repl[i] what is put
\* for that match; the scan goes on after a match, one token further
\* otherwise
ReplaceAll(s, ends, repl) ==
    LET scan[i \in 1..(Len(s) + 1)] ==
            IF i > Len(s) THEN <<>>
            ELSE IF ends[i] > i
                 THEN repl[i] \o scan[ends[i]]
                 ELSE <<s[i]>> \o scan[i + 1]
    IN  scan[1]

\* the part of s from i up to, not including, e; nothing when there is no
\* match
Matched(s, i, e) == IF e > i THEN SubSeq(s, i, e - 1) ELSE <<>>

\* n times d, one or more tokens other than d, n times d: the run between
\* cannot hold d, so the match ends at the first d after the opening
Repeats(s, i, d, n) == \A k \in 0..(n - 1) : Is(s, i + k, d)

DelimitedEnd(s, i, d, n) ==
    IF Repeats(s, i, d, n)
       /\ Find(s, i + n, {d}) > i + n
       /\ Repeats(s, Find(s, i + n, {d}), d, n)
    THEN Find(s, i + n, {d}) + n
    ELSE 0

Delimited(s, d, n, open, close) ==
    ReplaceAll(s,
        [i \in DOMAIN s |-> DelimitedEnd(s, i, d, n)],
        [i \in DOMAIN s |->
            <<open>> \o Matched(s, i + n, DelimitedEnd(s, i, d, n) - n) \o <<close>>])

\* line 109: code.replace(/</g, "&lt;")
EscapeLt(code) == [i \in DOMAIN code |-> IF code[i] = "<" THEN "&lt;" ELSE code[i]]

\* lines 107-110: the lazy body ends at the first closing fence
FenceEnd(s, i) ==
    LET closes == {k \in (i + 3)..(Len(s) - 2) : Repeats(s, k, Backtick, 3)}
    IN  IF Repeats(s, i, Backtick, 3) /\ closes # {} THEN Min(closes) + 3 ELSE 0

CodeFences(s) ==
    ReplaceAll(s,
        [i \in DOMAIN s |-> FenceEnd(s, i)],
        [i \in DOMAIN s |->
            <<"<pre>", "<code>">> \o EscapeLt(Matched(s, i + 3, FenceEnd(s, i) - 3))
                \o <<"</code>", "</pre>">>])

\* line 112
InlineCode(s) == Delimited(s, Backtick, 1, "<code>", "</code>")

\* lines 114-117, one level: the marks at a line start, white space (which
\* may run over line ends), then the rest of the line
HeadingBody(s, i, n) == FindNot(s, i + n, WhiteSpace)

HeadingEnd(s, i, n) ==
    IF AtLineStart(s, i) /\ Repeats(s, i, "#", n) /\ HeadingBody(s, i, n) > i + n
    THEN Find(s, HeadingBody(s, i, n), {"\n"})
    ELSE 0

Heading(s, n, open, close) ==
    ReplaceAll(s,
        [i \in DOMAIN s |-> HeadingEnd(s, i, n)],
        [i \in DOMAIN s |->
            <<open>> \o Matched(s, HeadingBody(s, i, n), HeadingEnd(s, i, n)) \o <<close>>])

Headings(s) ==
    Heading(Heading(Heading(s, 3, "<h3>", "</h3>"), 2, "<h2>", "</h2>"), 1, "<h1>", "</h1>")

\* lines 119-123
Emphasis(s) ==
    Delimited(
        Delimited(
            Delimited(
                Delimited(s, "*", 2, "<strong>", "</strong>"),
                "*", 1, "<em>", "</em>"),
            "_", 2, "<strong>", "</strong>"),
        "_", 1, "<em>", "</em>")

Schemes == {"http://", "https://"}

AnchorOpen == "<a href=\""

AnchorRest == "\" target=\"_blank\" rel=\"noopener noreferrer\">"

\* lines 125-128: the text runs to the first ], the URL to the first ) or
\* white space, and only a ) there makes a match
LinkTextEnd(s, i) == Find(s, i + 1, {"]"})

LinkUrlEnd(s, i) == Find(s, LinkTextEnd(s, i) + 3, {")"} \cup WhiteSpace)

LinkEnd(s, i) ==
    IF /\ Is(s, i, "[")
       /\ LinkTextEnd(s, i) > i + 1
       /\ Is(s, LinkTextEnd(s, i), "]")
       /\ Is(s, LinkTextEnd(s, i) + 1, "(")
       /\ LinkTextEnd(s, i) + 2 <= Len(s)
       /\ s[LinkTextEnd(s, i) + 2] \in Schemes
       /\ LinkUrlEnd(s, i) > LinkTextEnd(s, i) + 3
       /\ Is(s, LinkUrlEnd(s, i), ")")
    THEN LinkUrlEnd(s, i) + 1
    ELSE 0

Links(s) ==
    ReplaceAll(s,
        [i \in DOMAIN s |-> LinkEnd(s, i)],
        [i \in DOMAIN s |->
            <<AnchorOpen>> \o Matched(s, LinkTextEnd(s, i) + 2, LinkEnd(s, i) - 1)
                \o <<AnchorRest>> \o Matched(s, i + 1, LinkTextEnd(s, i))
                \o <<"</a>">>])

\* [-*+]
BulletEnd(s, i) == IF i <= Len(s) /\ s[i] \in {"-", "*", "+"} THEN i + 1 ELSE 0

\* \d+\.
NumberEnd(s, i) ==
    IF Is(s, i, "1") /\ Is(s, FindNot(s, i, {"1"}), ".")
    THEN FindNot(s, i, {"1"}) + 1
    ELSE 0

\* the marker of a list of the kind
MarkerEnd(s, i, kind) == IF kind = "ul" THEN BulletEnd(s, i) ELSE NumberEnd(s, i)

\* lines 130 and 141: the group is repeated lazily and nothing follows it,
\* so a match is one repetition: a marker at a line start, one white space,
\* the rest of a line that is not empty, and the line end if there is one
ListEnd(s, i, kind) ==
    IF /\ AtLineStart(s, i)
       /\ MarkerEnd(s, i, kind) > 0
       /\ MarkerEnd(s, i, kind) <= Len(s)
       /\ s[MarkerEnd(s, i, kind)] \in WhiteSpace
       /\ Find(s, MarkerEnd(s, i, kind) + 1, {"\n"}) > MarkerEnd(s, i, kind) + 1
    THEN IF Find(s, MarkerEnd(s, i, kind) + 1, {"\n"}) <= Len(s)
         THEN Find(s, MarkerEnd(s, i, kind) + 1, {"\n"}) + 1
         ELSE Len(s) + 1
    ELSE 0

\* split(/\n/)
RECURSIVE Split(_)
Split(s) ==
    IF Find(s, 1, {"\n"}) > Len(s) THEN <<s>>
    ELSE <<SubSeq(s, 1, Find(s, 1, {"\n"}) - 1)>>
            \o Split(SubSeq(s, Find(s, 1, {"\n"}) + 1, Len(s)))

\* l.replace(/^[-*+]\s+/, "") and l.replace(/^\d+\.\s+/, "")
StripMarker(l, kind) ==
    IF MarkerEnd(l, 1, kind) > 0
       /\ FindNot(l, MarkerEnd(l, 1, kind), WhiteSpace) > MarkerEnd(l, 1, kind)
    THEN SubSeq(l, FindNot(l, MarkerEnd(l, 1, kind), WhiteSpace), Len(l))
    ELSE l

RECURSIVE Items(_, _)
Items(ls, kind) ==
    IF ls = <<>> THEN <<>>
    ELSE <<"<li>">> \o Trim(StripMarker(ls[1], kind)) \o <<"</li>">>
            \o Items(Tail(ls), kind)

\* lines 130-149, one kind of list
List(s, kind, open, close) ==
    ReplaceAll(s,
        [i \in DOMAIN s |-> ListEnd(s, i, kind)],
        [i \in DOMAIN s |->
            <<open>> \o Items(Split(Trim(Matched(s, i, ListEnd(s, i, kind)))), kind)
                \o <<close>>])

UnorderedLists(s) == List(s, "ul", "<ul>", "</ul>")

OrderedLists(s) == List(s, "ol", "<ol>", "</ol>")

\* the tokens whose first character is <
Tags ==
    {"<", "<pre>", "</pre>", "<code>", "</code>", "<h1>", "</h1>", "<h2>", "</h2>",
     "<h3>", "</h3>", "<strong>", "</strong>", "<em>", "</em>", AnchorOpen, "</a>",
     "<ul>", "</ul>", "<ol>", "</ol>", "<li>", "</li>", "<p>", "</p>", "<span>",
     "</span>"}

\* line 152
ParagraphBreaks(s) ==
    ReplaceAll(s,
        [i \in DOMAIN s |-> IF Repeats(s, i, "\n", 2) THEN FindNot(s, i, {"\n"}) ELSE 0],
        [i \in DOMAIN s |-> <<"</p>", "<p>">>])

\* lines 153-155: every line that is not empty
SpanLines(s) ==
    ReplaceAll(s,
        [i \in DOMAIN s |-> IF AtLineStart(s, i) THEN Find(s, i, {"\n"}) ELSE 0],
        [i \in DOMAIN s |->
            IF s[i] \in Tags THEN Matched(s, i, Find(s, i, {"\n"}))
            ELSE <<"<span>">> \o Matched(s, i, Find(s, i, {"\n"})) \o <<"</span>">>])

\* lines 104-158
renderMarkdown(text) ==
    <<"<p>">>
        \o SpanLines(ParagraphBreaks(OrderedLists(UnorderedLists(Links(Emphasis(
                Headings(InlineCode(CodeFences(sanitize(text))))))))))
        \o <<"</p>">>

\* the lines an argument is made of
Lines ==
    {<<>>, <<"a">>, <<"-", " ", "a">>, <<"*", " ", "a">>, <<"+", " ", "a">>,
     <<"1", ".", " ", "a">>, <<"#", " ", "<">>, <<"<", "a", ">", "&">>,
     <<"*", "*", "a", "*", "*">>, <<"_", "a", "_">>, <<Backtick, "<", Backtick>>,
     <<Backtick, Backtick, Backtick, "a", Backtick, Backtick, Backtick>>,
     <<"[", "a", "]", "(", "https://", "a", ")">>,
     <<"[", "a", "]", "(", "javascript:", "a", ")">>,
     <<"[", "a", "]", "(", "http://", "a", "\"", "a", ")">>}

RECURSIVE JoinLines(_)
JoinLines(ls) ==
    IF ls = <<>> THEN <<>>
    ELSE IF Len(ls) = 1 THEN ls[1]
    ELSE ls[1] \o <<"\n">> \o JoinLines(Tail(ls))

RawInputs == {JoinLines(ls) : ls \in SeqsUpTo(Lines, MaxLines)}

\* renderMarkdown has not been called
RenderIdle ==
    /\ raw = <<>>
    /\ html = <<>>

RenderInit ==
    /\ raw \in RawInputs
    /\ html = <<>>

RenderCall ==
    /\ html = <<>>
    /\ html' = renderMarkdown(raw)
    /\ UNCHANGED raw

(***************************************************************************)
(* Specifications.                                                         *)
(***************************************************************************)
vars == <<clientVars, relayVars, startVars, renderVars>>

\* the relay as the client specification holds it: configured, idle
RelayIdle ==
    /\ API_KEY = TRUE
    /\ clientStyle = "models"
    /\ relayUp = TRUE
    /\ req = None
    /\ call = None
    /\ provider = None
    /\ res = None

Init == ClientInit /\ RelayIdle /\ StartDone /\ RenderIdle

Next ==
    \/ (\E text \in Texts : Type(text)) /\ UNCHANGED <<relayVars, startVars, renderVars>>
    \/ Submit /\ UNCHANGED <<relayVars, startVars, renderVars>>
    \/ (\E resp \in Responses : Settle(resp)) /\ UNCHANGED <<relayVars, startVars, renderVars>>
    \/ Resume /\ UNCHANGED <<relayVars, startVars, renderVars>>

\* one session of the browser client
Spec == Init /\ [][Next]_vars

RelayNext ==
    \/ (\E body \in RequestBodies : Receive(body)) /\ UNCHANGED <<clientVars, startVars, renderVars>>
    \/ (\E resp \in ProviderResponses : Resolve(resp)) /\ UNCHANGED <<clientVars, startVars, renderVars>>
    \/ (\E message \in ProviderErrors : Reject(message)) /\ UNCHANGED <<clientVars, startVars, renderVars>>

InitRelay == ClientInit /\ RelayInit /\ StartDone /\ RenderIdle

\* the relay answering requests
SpecRelay == InitRelay /\ [][RelayNext]_vars

StartNext ==
    \/ Listening /\ UNCHANGED <<clientVars, relayVars, renderVars>>
    \/ (\E code \in ErrorCodes : Error(code)) /\ UNCHANGED <<clientVars, relayVars, renderVars>>

InitStart == ClientInit /\ RelayInit /\ StartInit /\ RenderIdle

\* the process starting: every listen ends in its callback or in an error
SpecStart ==
    /\ InitStart
    /\ [][StartNext]_vars
    /\ WF_vars(StartNext)

RenderNext == RenderCall /\ UNCHANGED <<clientVars, relayVars, startVars>>

InitRender == ClientInit /\ RelayIdle /\ StartDone /\ RenderInit

\* one call of renderMarkdown
SpecRender == InitRender /\ [][RenderNext]_vars

(***************************************************************************)
(* Properties of the client.                                               *)
(***************************************************************************)
\* the step is the resumption of the listener that awaited request i
Resumed(i) ==
    /\ i \in DOMAIN inflight
    /\ inflight[i].resp # Pending
    /\ inflight' = RemoveAt(inflight, i)

\* a reply with a success status whose result is a string that is not empty
\* once trimmed
UsableReply(resp) ==
    /\ resp.kind = "json"
    /\ resp.status \in 200..299
    /\ resp.body.t = "object"
    /\ Lookup(resp.body.p, "result").t = "string"
    /\ Trim(Lookup(resp.body.p, "result").s) # <<>>

\* a reply with a success status and a JSON body without such a result
EmptyReply(resp) ==
    /\ resp.kind = "json"
    /\ resp.status \in 200..299
    /\ ~UsableReply(resp)

\* the model message a usable reply stands for
ReplyMessage(resp) ==
    Message("model", JStr(Trim(Lookup(resp.body.p, "result").s)))

\* the length history had when the sendMessage that issued request r was
\* called: the request carries the history as it was after the call's push
LenAtCall(r) == Len(r.messages) - 1

\* C1, as claimed: one call of sendMessage leaves history longer by at most
\* one element, by one only on the success path with a non-empty trimmed
\* result, and exactly as long as at the call on every failure path.
C1_SendAddsAtMostOne ==
    [][\A i \in DOMAIN inflight :
        Resumed(i) /\ inflight[i].handler = 1 =>
            /\ Len(history') - LenAtCall(inflight[i]) <= 1
            /\ Len(history') - LenAtCall(inflight[i]) = 1 => UsableReply(inflight[i].resp)
            /\ ~UsableReply(inflight[i].resp) => Len(history') = LenAtCall(inflight[i])
      ]_vars

\* C1, amended: sendMessage first appends the user message, and history is
\* the request's messages until the call resumes; on every failure path it
\* ends with exactly that (one element more than at the call), and on the
\* success path with a non-empty trimmed result with the model message
\* appended to it (two elements more).
C1_SendAddsUserThenReply ==
    [][\A i \in DOMAIN inflight :
        Resumed(i) /\ inflight[i].handler = 1 =>
            /\ history = inflight[i].messages
            /\ inflight[i].messages[Len(inflight[i].messages)].role = "user"
            /\ history' = IF UsableReply(inflight[i].resp)
                          THEN Append(inflight[i].messages, ReplyMessage(inflight[i].resp))
                          ELSE inflight[i].messages
      ]_vars

\* a failed exchange followed by a successful one, both ended
C1_Witness ==
    /\ inflight = <<>>
    /\ Len(history) = 3
    /\ history[1].role = "user"
    /\ history[2].role = "user"
    /\ history[3].role = "model"
    /\ chatBox[2].text = FailedText

\* C2: at most one request to /api/chat is in flight, and while one is, the
\* input is disabled and empty, so that no submit event starts a second one.
C2_OneInFlight ==
    /\ Len(inflight) <= 1
    /\ inflight # <<>> => inputDisabled /\ btnDisabled /\ Trim(inputValue) = <<>>
    /\ inflight # <<>> => dispatchSubmit(ClientState).inflight = inflight

\* the second exchange of a session is in flight and its reply has arrived
C2_Witness ==
    /\ Len(inflight) = 1
    /\ inflight[1].resp # Pending
    /\ Len(inflight[1].messages) = 2

\* no model message of history has an empty or white-space content
NoBlankModelMessage ==
    \A k \in DOMAIN history :
        history[k].role = "model" =>
            history[k].content.t = "string" /\ Trim(history[k].content.s) # <<>>

\* C3: on a success status without a usable result the client shows
\* "Sorry, no response received." and appends nothing to history; history
\* never holds a model message whose content is empty or white space.
C3_EmptyResultNotAppended ==
    /\ []NoBlankModelMessage
    /\ [][\A i \in DOMAIN inflight :
            Resumed(i) /\ EmptyReply(inflight[i].resp) =>
                /\ chatBox'[inflight[i].el].text = NoResponseText
                /\ history' = history
         ]_vars

\* the second exchange of a session has ended on the sentinel
C3_Witness ==
    /\ inflight = <<>>
    /\ Len(history) = 2
    /\ history[2].role = "user"
    /\ chatBox[Len(chatBox)].text = NoResponseText
    /\ chatBox[Len(chatBox)].error

\* C4, as claimed: on a status that is not a success the client shows the
\* body's error field when it carries one and "HTTP <status>" otherwise, and
\* does not change history.
C4_ShowsRelayError ==
    [][\A i \in DOMAIN inflight :
        /\ Resumed(i)
        /\ inflight[i].resp.kind = "json"
        /\ inflight[i].resp.status \notin 200..299
        =>  /\ history' = history
            /\ chatBox'[inflight[i].el].text =
                IF inflight[i].resp.body.t = "object"
                   /\ Truthy(Lookup(inflight[i].resp.body.p, "error"))
                THEN Lookup(inflight[i].resp.body.p, "error").s
                ELSE <<"HTTP ", ToString(inflight[i].resp.status)>>
      ]_vars

\* C5: a submission of an empty or white-space text changes nothing: not
\* history, not the requests in flight, not the controls, in any state.
C5_BlankSubmitIgnored ==
    [][Submit /\ Trim(inputValue) = <<>> =>
        UNCHANGED <<history, inflight, inputDisabled, btnDisabled, chatBox>>]_vars

\* a white-space text is in the enabled input after an exchange has ended
C5_Witness ==
    /\ inputValue # <<>>
    /\ Trim(inputValue) = <<>>
    /\ ~inputDisabled
    /\ Len(history) >= 1
    /\ inflight = <<>>

\* C6, as claimed: a submission of a text that is not empty appends
\* { role: 'user', content: text } with the text as submitted.
C6_AppendsSubmittedText ==
    [][Submit /\ inputValue # <<>> =>
        history' = Append(history, Message("user", JStr(inputValue)))]_vars

\* C6, amended: a submission of a text that is not empty once trimmed
\* appends exactly one element, { role: 'user', content: the trimmed text }.
C6_AppendsTrimmedText ==
    [][Submit /\ Trim(inputValue) # <<>> =>
        history' = Append(history, Message("user", JStr(Trim(inputValue))))]_vars

\* the first submission has appended its trimmed text and awaits its reply
C6_Witness ==
    /\ history = <<Message("user", JStr(<<"a">>))>>
    /\ Len(inflight) = 1
    /\ inflight[1].messages = history
    /\ inputValue = <<>>

(***************************************************************************)
(* Properties of the relay.                                                *)
(***************************************************************************)
\* the request being handled carries an array as its messages
ArrayRequest ==
    /\ req # None
    /\ req.body.t = "object"
    /\ Lookup(req.body.p, "messages").t = "array"

\* the response sent has this status and a string as its error field
ErrorResponse(status) ==
    /\ res.kind = "respond"
    /\ res.status = status
    /\ Lookup(res.body.p, "error").t = "string"

\* C7, as claimed: without a credential every request is answered 503 with
\* the missing-credential error, whatever its body, and the provider is not
\* called.
C7_NoKeyAlways503 ==
    ~API_KEY /\ req # None =>
        /\ ErrorResponse(503)
        /\ Lookup(res.body.p, "error").s = MissingKeyText
        /\ call = None
        /\ provider = None

\* C7, amended: without a credential every request whose messages is an
\* array is answered 503 with the missing-credential error, a request whose
\* messages is not an array is answered 500, and the provider is not called.
C7_NoKeyArray503 ==
    ~API_KEY /\ req # None =>
        /\ call = None
        /\ provider = None
        /\ IF ArrayRequest
           THEN ErrorResponse(503) /\ Lookup(res.body.p, "error").s = MissingKeyText
           ELSE ErrorResponse(500)

\* without a credential, a request with two messages got its 503
C7_Witness ==
    /\ ~API_KEY
    /\ ArrayRequest
    /\ Len(Lookup(req.body.p, "messages").a) = 2
    /\ res.kind = "respond"
    /\ res.status = 503

\* C8: a request whose messages is not an array is answered 500 with an
\* error field, without a provider call; the handler ends in that response,
\* the relay stays up and ready for the next request, and nothing the
\* handler reads for a later request has changed.
C8_NotAnArray500 ==
    /\ [](req # None /\ ~ArrayRequest =>
            /\ ErrorResponse(500)
            /\ call = None
            /\ provider = None
            /\ relayUp)
    /\ [][UNCHANGED <<API_KEY, clientStyle>>]_vars

\* with a credential, a request whose messages is a string got its 500
C8_Witness ==
    /\ API_KEY
    /\ req # None
    /\ req.body = JObj(<<<<"messages", JStr(<<"not-an-array">>)>>>>)
    /\ res.kind = "respond"
    /\ res.status = 500
    /\ relayUp

\* the parts of the first candidate of a provider response, under its
\* response property if it has one
PartsOf(resp) ==
    IF resp.t = "object" /\ Lookup(resp.p, "response") # JUndef
    THEN CandidateParts(Lookup(resp.p, "response"))
    ELSE CandidateParts(resp)

\* the texts of the parts of a parts array
TextsOf(parts) == [i \in DOMAIN parts.a |-> Prop(parts.a[i], "text")]

\* a provider response whose first candidate has several parts that carry
\* text, in one place only (under response, or at the top)
SeveralTextParts(resp) ==
    /\ PartsOf(resp).t = "array"
    /\ Len(PartsOf(resp).a) >= 2
    /\ \A i \in DOMAIN PartsOf(resp).a : PartsOf(resp).a[i].t = "object"
    /\ Len(SelectSeq(TextsOf(PartsOf(resp)), Truthy)) >= 2
    /\ ~(Lookup(resp.p, "response") # JUndef /\ Lookup(resp.p, "candidates") # JUndef)

\* C9, as claimed: for a provider response whose first candidate has several
\* parts carrying text, the extracted result is the texts of all parts,
\* falsy ones left out, joined with line feeds.
C9_JoinsAllParts ==
    provider.kind = "resolved" /\ SeveralTextParts(provider.resp) =>
        /\ res.kind = "respond"
        /\ Lookup(res.body.p, "result") =
            JStr(JoinTokens(SelectSeq(TextsOf(PartsOf(provider.resp)), Truthy),
                            <<"\n">>))

\* C10, as claimed: whatever the provider response, the handler does not
\* throw and its 200 reply carries a string as result.
C10_ResultIsString ==
    provider.kind = "resolved" =>
        /\ res.kind = "respond"
        /\ res.status = 200
        /\ Lookup(res.body.p, "result").t = "string"

\* no text is to be had from the first candidate of r: it has no parts, or
\* none of its parts has a text that is not empty
YieldsNoText(r) ==
    \/ CandidateParts(r).t # "array"
    \/ \A i \in DOMAIN CandidateParts(r).a :
            ~Truthy(OptProp(CandidateParts(r).a[i], "text"))

\* C11, as claimed: when none of the four shapes yields text from a provider
\* response, the extracted result is the JSON rendering of the whole
\* response, never the empty string; for {} it is "{}".
C11_FallsBackToJson ==
    /\ provider.kind = "resolved"
    /\ provider.resp.t = "object"
    /\ YieldsNoText(Lookup(provider.resp.p, "response"))
    /\ YieldsNoText(provider.resp)
    =>  /\ res.kind = "respond"
        /\ Lookup(res.body.p, "result") = Stringify(provider.resp)
        /\ Lookup(res.body.p, "result") # JStr(<<>>)
        /\ provider.resp = JObj(<<>>) => Lookup(res.body.p, "result") = JStr(<<"{}">>)

(***************************************************************************)
(* The client session in which every fetch settles and every awaiting      *)
(* listener is resumed: the network call completes or fails, and the event *)
(* loop runs the continuation of a settled promise.                        *)
(***************************************************************************)
SpecLive ==
    /\ Init
    /\ [][Next]_vars
    /\ WF_vars((\E resp \in Responses : Settle(resp)) /\ UNCHANGED <<relayVars, startVars, renderVars>>)
    /\ WF_vars(Resume /\ UNCHANGED <<relayVars, startVars, renderVars>>)

\* C12: once a send is issued the input is re-enabled in the end, whatever
\* the outcome, and it is not enabled while the send is outstanding.
C12_InputReenabled ==
    /\ [](inflight # <<>> => inputDisabled /\ btnDisabled)
    /\ (inflight # <<>>) ~> (inflight = <<>> /\ ~inputDisabled /\ ~btnDisabled)

\* a send has ended on the empty-result sentinel and the input is enabled
C12_Witness ==
    /\ inflight = <<>>
    /\ ~inputDisabled
    /\ Len(history) = 1
    /\ Len(chatBox) = 2
    /\ chatBox[2].text = NoResponseText

\* the messages array of the request being handled
RequestMessages == Lookup(req.body.p, "messages").a

\* { role: m.role, parts: [ { text: m.content } ] }
ContentOf(m) ==
    JObj(<<<<"role", Lookup(m.p, "role")>>,
           <<"parts", JArr(<<JObj(<<<<"text", Lookup(m.p, "content")>>>>)>>)>>>>)

\* C13: the contents passed to the provider have the length of the request's
\* messages and hold, at every index, the role and the content of the
\* message at that index, whatever the role; and a request whose messages
\* are all objects reaches the provider when a key and a client are there.
C13_ContentsMirrorMessages ==
    /\ call # None =>
        /\ ArrayRequest
        /\ Len(call.contents) = Len(RequestMessages)
        /\ \A i \in DOMAIN RequestMessages :
                call.contents[i] = ContentOf(RequestMessages[i])
    /\ ( /\ ArrayRequest
         /\ \A i \in DOMAIN RequestMessages : RequestMessages[i].t = "object"
         /\ API_KEY
         /\ clientStyle # "none" ) => call # None \/ provider # None

\* the provider is being called with a system message before a user message
C13_Witness ==
    /\ call # None
    /\ Len(call.contents) = 2
    /\ Lookup(call.contents[1].p, "role") = JStr(<<"system">>)
    /\ Lookup(call.contents[2].p, "role") = JStr(<<"user">>)
    /\ Lookup(call.contents[2].p, "parts") = JArr(<<JObj(<<<<"text", JStr(<<"b", " ">>)>>>>)>>)

IsPrefix(s, t) == Len(s) <= Len(t) /\ SubSeq(t, 1, Len(s)) = s

\* C17: in every state each model message of history directly follows a user
\* message; history only grows by appending; a send that ends without a
\* usable reply leaves history ending with the user message it pushed; and
\* the request of a send carries the history as it stood followed directly
\* by the new user message.
C17_FailedSendNotRolledBack ==
    /\ [](\A k \in DOMAIN history :
            history[k].role = "model" => k > 1 /\ history[k - 1].role = "user")
    /\ [][IsPrefix(history, history')]_vars
    /\ [][\A i \in DOMAIN inflight :
            Resumed(i) /\ inflight[i].handler = 1 /\ ~UsableReply(inflight[i].resp) =>
                /\ history' = inflight[i].messages
                /\ history'[Len(history')].role = "user"
         ]_vars
    /\ [][Len(inflight') > Len(inflight) =>
            /\ Len(inflight'[Len(inflight')].messages) = Len(history) + 1
            /\ IsPrefix(history, inflight'[Len(inflight')].messages)
            /\ inflight'[Len(inflight')].messages[Len(history) + 1].role = "user"
            /\ history' = inflight'[Len(inflight')].messages
         ]_vars

\* the request that follows a failed exchange is in flight: it carries two
\* consecutive user messages
C17_Witness ==
    /\ Len(inflight) = 1
    /\ Len(inflight[1].messages) = 2
    /\ inflight[1].messages[1].role = "user"
    /\ inflight[1].messages[2].role = "user"
    /\ chatBox[2].text = FailedText

\* C18: the ports tried are the base port and the ones after it, in order,
\* six at most; a further port is tried only on EADDRINUSE; a process that
\* has exited did so with code 1, after an error other than EADDRINUSE, a
\* port that is none, or EADDRINUSE on the sixth attempt; no process listens
\* on two ports; and start-up ends, listening on the last port tried or
\* exited.
C18_StartTerminates ==
    /\ [](/\ Len(attempts) \in 1..(DefaultAttempts + 1)
          /\ \A k \in DOMAIN attempts : attempts[k] = BASE_PORT(PORT) + k - 1
          /\ Len(errors) \in {Len(attempts) - 1, Len(attempts)}
          /\ Len(errors) = Len(attempts) => phase = "exited"
          /\ \A k \in 1..(Len(attempts) - 1) : errors[k] = "EADDRINUSE")
    /\ [](phase = "exited" =>
            /\ exitCode = 1
            /\ listening = {}
            /\ \/ attempts[Len(attempts)] \notin 0..65535
               \/ errors[Len(errors)] # "EADDRINUSE"
               \/ Len(attempts) = DefaultAttempts + 1)
    /\ [](phase = "listening" => listening = {attempts[Len(attempts)]})
    /\ [](phase = "binding" => listening = {})
    /\ <>[](phase \in {"listening", "exited"})

\* five ports in use, the sixth one free
C18_Witness ==
    /\ phase = "listening"
    /\ Len(attempts) = DefaultAttempts + 1
    /\ listening = {DefaultPort + DefaultAttempts}

(***************************************************************************)
(* Properties of the markdown renderer.                                    *)
(***************************************************************************)
Count(s, t) == Cardinality({i \in DOMAIN s : s[i] = t})

\* a line that starts with -, * or + and a space
IsBulletLine(l) == Len(l) >= 2 /\ l[1] \in {"-", "*", "+"} /\ l[2] = " "

\* a line that starts with digits and a full stop
IsNumberLine(l) == NumberEnd(l, 1) > 0

\* C14, as claimed: every maximal run of bullet lines of the argument makes
\* one <ul>, every maximal run of number lines one <ol>, and every line of
\* a run one <li>.
C14_OneListPerRun ==
    html # <<>> =>
        LET ls == Split(raw)
            bulletRuns == {k \in DOMAIN ls :
                            IsBulletLine(ls[k]) /\ (k = 1 \/ ~IsBulletLine(ls[k - 1]))}
            numberRuns == {k \in DOMAIN ls :
                            IsNumberLine(ls[k]) /\ (k = 1 \/ ~IsNumberLine(ls[k - 1]))}
            listLines == {k \in DOMAIN ls : IsBulletLine(ls[k]) \/ IsNumberLine(ls[k])}
        IN  /\ Count(html, "<ul>") = Cardinality(bulletRuns)
            /\ Count(html, "<ol>") = Cardinality(numberRuns)
            /\ Count(html, "<li>") = Cardinality(listLines)

\* C15, as claimed: every anchor of the result has an href that starts with
\* http:// or https:// and runs, without a double quote and without a tag,
\* up to the target and rel attributes the renderer writes.
C15_AnchorsWellFormed ==
    html # <<>> =>
        \A i \in DOMAIN html :
            html[i] = AnchorOpen =>
                /\ Is(html, i + 1, "http://") \/ Is(html, i + 1, "https://")
                /\ Find(html, i, {AnchorRest}) <= Len(html)
                /\ \A k \in (i + 1)..(Find(html, i, {AnchorRest}) - 1) :
                        html[k] # "\"" /\ html[k] \notin Tags

\* the entity sanitize writes for a character
Entity(c) ==
    CASE c = "&" -> "&amp;"
      [] c = "<" -> "&lt;"
      [] c = ">" -> "&gt;"

\* C16: the result holds no <, > or & of the argument as it was, and holds
\* as many entities of each kind as the argument holds characters of that
\* kind, so that the only tokens with a < or a > are the renderer's tags.
C16_EscapingIsKept ==
    html # <<>> =>
        /\ \A c \in {"&", "<", ">"} :
                /\ Count(html, c) = 0
                /\ Count(html, Entity(c)) = Count(raw, c)
        /\ \A i \in DOMAIN html :
                html[i] \in Tags \cup {AnchorRest} \/ html[i] \in {raw[k] : k \in DOMAIN raw}
                    \/ html[i] \in {"&amp;", "&lt;", "&gt;"}

\* a < in inline code under a line with a tag of the argument's own
C16_Witness ==
    /\ raw = <<"<", "a", ">", "&", "\n", Backtick, "<", Backtick>>
    /\ html = <<"<p>", "<span>", "&lt;", "a", "&gt;", "&amp;", "</span>", "\n",
                "<code>", "&lt;", "</code>", "</p>">>

====
